---- MODULE Spec2Model ----
(***************************************************************************)
(* Semantic image search: the indexing pipeline (ingestion.py), the        *)
(* retrieval service (retriever.py), the vector-store gateway              *)
(* (qdrant_client.py) and the embedding provider (embeddings.py).          *)
(*                                                                         *)
(* The vector store, the CLIP encoder and the file system are outside the  *)
(* repository.  The store is a named collection holding points; every call *)
(* to it either is carried out or is rejected with no effect (the caller   *)
(* sees an exception).  The encoder maps a picture or a text to a          *)
(* direction of the embedding space; the similarity of two vectors depends *)
(* only on their directions and is maximal for equal directions.           *)
(***************************************************************************)
EXTENDS Integers, Sequences, FiniteSets, TLC

\* ------------------------------------------------------------------ bounds
MaxIds == 2          \* identifiers uuid4 hands out to points in one behaviour
MaxTreeFiles == 2    \* files present in a tree handed to index_folder
MaxK == 2            \* largest result limit k of a search
MaxSaves == 2        \* output directories save_results creates in one behaviour
MaxBatch == 2        \* longest list of paths handed to embed_image_paths
NumThreads == 2      \* threads that call a lazy accessor concurrently
NumCallers == 2      \* callers that run ensure_collection concurrently

\* --------------------------------------------------------------- constants
NoneVal == "<None>"
Ok == "ok"
SISException == "SemanticImageSearchException"
ValueError == "ValueError"

QDRANT_COLLECTION == "semantic-image-search"
VECTOR_SIZE == 512
\* dimension of the vectors of the configured CLIP model: ViT-B-32 gives 512,
\* ViT-L-14 gives 768 and ViT-H-14 gives 1024
ModelDims == {512, 768, 1024}

\* ----------------------------------------------------- strings and paths
\* A file name is a string; Chars gives its characters, on which lower() and
\* endswith() work.
FilePool == {"a.jpg", "b.PNG", "c.txt"}

Chars(f) ==
    CASE f = "a.jpg" -> <<"a", ".", "j", "p", "g">>
      [] f = "b.PNG" -> <<"b", ".", "P", "N", "G">>
      [] f = "c.txt" -> <<"c", ".", "t", "x", "t">>
      [] f = "query.png" -> <<"q", "u", "e", "r", "y", ".", "p", "n", "g">>
      [] OTHER -> <<>>

UpperChars == <<"A", "B", "C", "D", "E", "F", "G", "H", "I", "J", "K", "L", "M",
                "N", "O", "P", "Q", "R", "S", "T", "U", "V", "W", "X", "Y", "Z">>
LowerChars == <<"a", "b", "c", "d", "e", "f", "g", "h", "i", "j", "k", "l", "m",
                "n", "o", "p", "q", "r", "s", "t", "u", "v", "w", "x", "y", "z">>

LowerChar(c) ==
    IF \E i \in 1..Len(UpperChars) : UpperChars[i] = c
    THEN LowerChars[CHOOSE i \in 1..Len(UpperChars) : UpperChars[i] = c]
    ELSE c

\* str.lower()
Lower(s) == [i \in 1..Len(s) |-> LowerChar(s[i])]

\* str.endswith(suffix)
EndsWith(s, suf) ==
    /\ Len(suf) <= Len(s)
    /\ SubSeq(s, Len(s) - Len(suf) + 1, Len(s)) = suf

\* exts = (".jpg", ".jpeg", ".png", ".webp")
exts == { <<".", "j", "p", "g">>, <<".", "j", "p", "e", "g">>,
          <<".", "p", "n", "g">>, <<".", "w", "e", "b", "p">> }

\* f.lower().endswith(exts)
IsImageFile(f) == \E e \in exts : EndsWith(Lower(Chars(f)), e)

\* A path is the sequence of its "/"-separated parts: "images/cats" is
\* <<"images", "cats">> and "images/" is <<"images", "">>.
Last(s) == s[Len(s)]
Front(s) == SubSeq(s, 1, Len(s) - 1)

\* os.path.basename: what follows the last "/"
Basename(p) == Last(p)

\* os.path.join(a, b) for a relative b: no second "/" after a trailing one
Join(a, b) == IF Last(a) = "" THEN Front(a) \o <<b>> ELSE a \o <<b>>

\* root folders a caller passes: without and with a trailing separator
Roots == { <<"images">>, <<"images", "">> }

\* The directories below a root, each by its path relative to the root, and the
\* subdirectories of each in listing order.
RelDirs == { <<>>, <<"cats">>, <<"cats", "kittens">>, <<"dogs">> }
SubDirs(rel) ==
    CASE rel = <<>> -> <<"cats", "dogs">>
      [] rel = <<"cats">> -> <<"kittens">>
      [] OTHER -> <<>>

\* A tree: the files directly inside each directory.
Trees ==
    { t \in [RelDirs -> SUBSET FilePool] :
        Cardinality({ df \in RelDirs \X FilePool : df[2] \in t[df[1]] }) <= MaxTreeFiles }

\* a set as a sequence, in the listing order of the directory
RECURSIVE SetToSeq(_)
SetToSeq(S) ==
    IF S = {} THEN <<>>
    ELSE LET x == CHOOSE y \in S : TRUE IN <<x>> \o SetToSeq(S \ {x})

\* os.walk(root_folder), top-down: (dirpath, files) of a directory, then of each
\* of its subdirectories
RECURSIVE WalkFrom(_, _, _)
RECURSIVE WalkChildren(_, _, _, _, _)
WalkChildren(dirpath, rel, tree, names, i) ==
    IF i > Len(names) THEN <<>>
    ELSE WalkFrom(Join(dirpath, names[i]), Append(rel, names[i]), tree)
           \o WalkChildren(dirpath, rel, tree, names, i + 1)
WalkFrom(dirpath, rel, tree) ==
    <<[dirpath |-> dirpath, rel |-> rel, files |-> SetToSeq(tree[rel])]>>
      \o WalkChildren(dirpath, rel, tree, SubDirs(rel), 1)

Walk(root_folder, tree) == WalkFrom(root_folder, <<>>, tree)

\* ---------------------------------------------------------------- encoder
\* The picture a file holds: copies of a.jpg in several directories, and the
\* query picture, are the same picture.
ContentOf(f) ==
    IF f \in {"a.jpg", "query.png"} THEN 1 ELSE IF f = "b.PNG" THEN 2 ELSE 3

Texts == {"", "red car", "cat"}
TextDir(t) == IF t = "cat" THEN 1 ELSE 3

\* cosine similarity of two directions, as a rank: maximal for equal directions
Sim(a, b) == IF a >= b THEN 3 - (a - b) ELSE 3 - (b - a)

\* ------------------------------------------------------------------ state
VARIABLES
    modelDim,       \* len() of the vectors the loaded CLIP model returns
    collections,    \* names of the collections the vector store holds
    points,         \* the points of the collection QDRANT_COLLECTION
    nextId,         \* uuid4: identifiers handed out so far, plus one
    client,         \* QdrantClientManager._client is not None
    loader,         \* embeddings._embedding_loader is not None
    phase,          \* "boot", then "serving" (init_services done) or "failed"
    retrieved,      \* names of the directories under RETRIEVED_ROOT
    nextDir,        \* uuid4 of save_results: names handed out so far, plus one
    clearedSince,   \* a clear succeeded and no upsert was accepted since
    clearedNoIndex, \* a clear succeeded and no index call has succeeded since
    lastOp,         \* the last call: its arguments, outcome and result
    \* concurrent first use of the lazy singletons, one bytecode step at a time
    instance,       \* the module global of each singleton: 0 is None
    constructed,    \* constructor runs completed, per singleton
    tpc,            \* where each thread is in its accessor call
    tcall,          \* the singleton each thread asks for
    tgot,           \* the instance each thread was returned
    \* concurrent ensure_collection, one store call at a time
    epc,            \* where each caller is in ensure_collection
    eseen,          \* the names each caller's get_collections returned
    eresult,        \* how each caller's call ended
    \* concurrent search_image_endpoint requests, one file operation at a time
    queryFiles,     \* what each file under QUERY_IMAGE_ROOT holds
    req             \* each thread's request: its upload and where it is

svcVars == <<modelDim, collections, points, nextId, client, loader, phase,
             retrieved, nextDir, clearedSince, clearedNoIndex, lastOp>>
lazyVars == <<instance, constructed, tpc, tcall, tgot>>
ensVars == <<epc, eseen, eresult>>
reqVars == <<queryFiles, req>>
vars == <<svcVars, lazyVars, ensVars, reqVars>>

Singletons == {"loader", "client", "translator"}
Threads == 1..NumThreads
Callers == 1..NumCallers

LazyInit ==
    /\ instance = [s \in Singletons |-> 0]
    /\ constructed = [s \in Singletons |-> 0]
    /\ tpc = [t \in Threads |-> "idle"]
    /\ tcall = [t \in Threads |-> NoneVal]
    /\ tgot = [t \in Threads |-> 0]

EnsInit ==
    /\ epc = [c \in Callers |-> "idle"]
    /\ eseen = [c \in Callers |-> {}]
    /\ eresult = [c \in Callers |-> "-"]

\* names a client uploads its query picture under (the UI: always query.png)
UploadNames == {"query.png", "car.png"}

\* no request in progress on the thread
NoRequest == [pc |-> "idle", filename |-> NoneVal, bytes |-> NoneVal, k |-> 0,
              embedded |-> NoneVal, status |-> 0, results |-> <<>>]

ReqInit ==
    /\ queryFiles = [f \in UploadNames |-> "absent"]
    /\ req = [t \in Threads |-> NoRequest]

\* no call is in progress: the last one has returned to its caller
NoOp == [op |-> "none", outcome |-> Ok]
Idle == lastOp = NoOp

Min(a, b) == IF a <= b THEN a ELSE b
Range(s) == { s[i] : i \in 1..Len(s) }

\* --------------------------------------------------------- vector store
\* models.Filter(must=[FieldCondition(key, MatchValue(value)), ...]): a point
\* matches when its payload equals the value on every key
Matches(p, must) == \A c \in must : p.payload[c[1]] = c[2]

\* upsert: inserts, or overwrites the point of the same id
StoreUpsert(pts, new) ==
    { p \in pts : \A n \in new : n.id # p.id } \cup new

\* delete(filter): removes the points the filter matches
StoreDelete(pts, must) == { p \in pts : ~Matches(p, must) }

ScoredPoint(p, vector) ==
    [id |-> p.id, score |-> Sim(vector.dir, p.vector.dir), payload |-> p.payload]

\* query_points(query, limit, query_filter): the limit nearest of the points the
\* filter admits (all of them without a filter), by descending score; the order
\* among equal scores is the store's
StoreQuery(pts, vector, limit, query_filter) ==
    LET cands == IF query_filter.none THEN pts
                 ELSE { p \in pts : Matches(p, query_filter.must) }
        n == Min(limit, Cardinality(cands))
    IN  { [i \in 1..n |-> ScoredPoint(s[i], vector)] :
            s \in { t \in [1..n -> cands] :
                      /\ \A i, j \in 1..n : i < j =>
                            /\ t[i] # t[j]
                            /\ Sim(vector.dir, t[i].vector.dir)
                                 >= Sim(vector.dir, t[j].vector.dir)
                      /\ \A p \in cands : (\A i \in 1..n : t[i] # p) =>
                            \A i \in 1..n : Sim(vector.dir, t[i].vector.dir)
                                              >= Sim(vector.dir, p.vector.dir) } }

\* ------------------------------------------------ QdrantClientManager
\* get_client: constructs the client on first use; `fails` is the constructor
\* raising
GetClient(cl, fails) ==
    IF cl THEN [client |-> TRUE, outcome |-> Ok]
    ELSE IF fails THEN [client |-> FALSE, outcome |-> SISException]
    ELSE [client |-> TRUE, outcome |-> Ok]

\* `if Config.QDRANT_COLLECTION not in existing`; the mutant creates always
NeedsCreateAlways(existing) == TRUE
NeedsCreate(existing) == QDRANT_COLLECTION \notin existing

EnsureFails == {"none", "client", "list", "create"}

\* ensure_collection, run without interleaving: the client, the listing, and
\* create_collection when the name is not listed.  The store rejects the
\* creation of a name it holds.
Ensure(cl, colls, fail) ==
    LET g == GetClient(cl, fail = "client")
        failed == [client |-> g.client, collections |-> colls,
                   outcome |-> SISException, createIssued |-> FALSE]
    IN  IF g.outcome # Ok \/ fail = "list" THEN failed
        ELSE LET existing == colls IN
             IF NeedsCreate(existing)
             THEN IF fail = "create" \/ QDRANT_COLLECTION \in colls
                  THEN [failed EXCEPT !.createIssued = TRUE]
                  ELSE [client |-> TRUE, collections |-> colls \cup {QDRANT_COLLECTION},
                        outcome |-> Ok, createIssued |-> TRUE]
             ELSE [client |-> TRUE, collections |-> colls,
                   outcome |-> Ok, createIssued |-> FALSE]

\* -------------------------------------------------------- EmbeddingLoader
NoVec == [dim |-> 0, dir |-> 0]

\* embedder.embed_image(image_paths): one vector per path, in order
EmbedImages(image_paths) ==
    [j \in 1..Len(image_paths) |->
        [dim |-> modelDim, dir |-> ContentOf(Basename(image_paths[j]))]]

\* EmbeddingLoader.embed_text: `if not text: raise ValueError` before the encoder
\* is called; `fails` is embedder.embed_query raising
EmbedText(text, fails) ==
    IF text = "" THEN [outcome |-> ValueError, vec |-> NoVec, encoderCalls |-> 0]
    ELSE IF fails THEN [outcome |-> SISException, vec |-> NoVec, encoderCalls |-> 1]
    ELSE [outcome |-> Ok, vec |-> [dim |-> modelDim, dir |-> TextDir(text)],
          encoderCalls |-> 1]

\* --------------------------------------------------------------- startup
Init ==
    /\ modelDim = VECTOR_SIZE
    /\ collections = {"other"}
    /\ points = {}
    /\ nextId = 1
    /\ client = FALSE
    /\ loader = FALSE
    /\ phase = "boot"
    /\ retrieved = {}
    /\ nextDir = 1
    /\ clearedSince = FALSE
    /\ clearedNoIndex = FALSE
    /\ lastOp = NoOp
    /\ LazyInit
    /\ EnsInit
    /\ ReqInit

\* the startup handler raising ends the application before it serves a request;
\* the mutant serves all the same
StartupPhaseServing(outcome) == "serving"
StartupPhase(outcome) == IF outcome = Ok THEN "serving" ELSE "failed"

\* main.init_services: ImageSearchService() then IndexService(); each constructor
\* is get_client and ensure_collection, and raises when either does
InitServices ==
    /\ Idle
    /\ phase = "boot"
    /\ \E f1, f2 \in EnsureFails :
         LET s1 == Ensure(client, collections, f1)
             s2 == Ensure(s1.client, s1.collections, f2)
             done == IF s1.outcome = Ok THEN s2 ELSE s1
         IN  /\ client' = done.client
             /\ collections' = done.collections
             /\ phase' = StartupPhase(done.outcome)
             /\ lastOp' = [op |-> "init_services", outcome |-> done.outcome,
                           ensured |-> (IF s1.outcome = Ok THEN 1 ELSE 0)
                                        + (IF done.outcome = Ok THEN 1 ELSE 0)]
    /\ UNCHANGED <<modelDim, points, nextId, loader, retrieved, nextDir, clearedSince, clearedNoIndex>>
    /\ UNCHANGED <<lazyVars, ensVars, reqVars>>

\* QdrantClientManager.ensure_collection, called on its own
EnsureCollection ==
    /\ Idle
    /\ phase # "failed"
    /\ \E f \in EnsureFails :
         LET s == Ensure(client, collections, f)
         IN  /\ client' = s.client
             /\ collections' = s.collections
             /\ lastOp' = [op |-> "ensure_collection", outcome |-> s.outcome,
                           createIssued |-> s.createIssued]
    /\ UNCHANGED <<modelDim, points, nextId, loader, phase, retrieved, nextDir,
                   clearedSince, clearedNoIndex>>
    /\ UNCHANGED <<lazyVars, ensVars, reqVars>>

\* ----------------------------------------------------------- IndexService
\* pictures index_image is called on: a picture and a copy of it
SinglePaths == { <<"uploads", "a.jpg">>, <<"uploads", "copy", "a.jpg">> }
Categories == {NoneVal, "cats", "dogs"}

IndexFails == {"none", "loader", "embed", "upsert"}

Payload(image_path, category) ==
    [filename |-> Basename(image_path), path |-> image_path, category |-> category]

\* str(uuid4()): the n-th identifier drawn is one no earlier draw returned; the
\* mutant is a generator that returns one identifier over and over
Uuid4Repeating(n) == 1
Uuid4(n) == n

\* PointStruct(id=str(uuid4()), vector, payload)
PointStruct(id, vector, payload) == [id |-> id, vector |-> vector, payload |-> payload]

\* IndexService.index_image
IndexImage(image_path, category) ==
    /\ Idle
    /\ phase = "serving"
    /\ nextId <= MaxIds
    /\ \E fail \in IndexFails :
         LET vec == EmbedImages(<<image_path>>)[1]
             payload == Payload(image_path, category)
             ok == fail = "none" /\ QDRANT_COLLECTION \in collections
         IN  /\ fail = "loader" => ~loader
             /\ loader' = (loader \/ fail # "loader")
             /\ nextId' = IF fail \in {"none", "upsert"} THEN nextId + 1 ELSE nextId
             /\ points' = IF ok THEN StoreUpsert(points, {PointStruct(Uuid4(nextId), vec, payload)})
                          ELSE points
             /\ clearedSince' = (clearedSince /\ ~ok)
             /\ clearedNoIndex' = (clearedNoIndex /\ ~ok)
             /\ lastOp' = [op |-> "index_image", path |-> image_path,
                           category |-> category,
                           outcome |-> IF ok THEN Ok ELSE SISException]
    /\ UNCHANGED <<modelDim, collections, client, phase, retrieved, nextDir>>
    /\ UNCHANGED <<lazyVars, ensVars, reqVars>>

\* category = os.path.basename(dirpath)
CategoryOf(root_folder, dirpath) == Basename(dirpath)

\* the image files of one directory of the walk, as index_folder collects them
ImagePaths(d) ==
    LET fs == SelectSeq(d.files, IsImageFile)
    IN  [j \in 1..Len(fs) |-> Join(d.dirpath, fs[j])]

\* client.upsert raising: the store has rejected the batch; the mutant has
\* the batch applied all the same
RejectedUpsertApplied(pts, new) == StoreUpsert(pts, new)
RejectedUpsert(pts, new) == pts

\* The loop of index_folder from the i-th directory of the walk on.  acc holds
\* the store's points, the uuid4 counter, the loader, the directories embedded
\* and upserted so far and the number of batches begun; fail names the batch
\* (0: none) at which the loader, the embedding or the upsert raises.
RECURSIVE FolderLoop(_, _, _, _, _)
FolderLoop(root_folder, walk, i, acc, fail) ==
    IF i > Len(walk) THEN acc
    ELSE
      LET d == walk[i]
          category == CategoryOf(root_folder, d.dirpath)
          image_paths == ImagePaths(d)
          payloads == [j \in 1..Len(image_paths) |-> Payload(image_paths[j], category)]
          b == acc.batches + 1
          here == fail.at = b
      IN  IF Len(image_paths) = 0 THEN FolderLoop(root_folder, walk, i + 1, acc, fail)
          ELSE IF here /\ fail.kind = "loader"
          THEN [acc EXCEPT !.outcome = SISException, !.batches = b,
                           !.failDir = d.dirpath]
          ELSE IF here /\ fail.kind = "embed"
          THEN [acc EXCEPT !.outcome = SISException, !.batches = b, !.loader = TRUE,
                           !.embedCalls = Append(@, d.dirpath),
                           !.failDir = d.dirpath]
          ELSE
            LET vectors == EmbedImages(image_paths)
                n == Min(Len(vectors), Len(payloads))
                pts == { PointStruct(Uuid4(acc.nextId + j - 1), vectors[j], payloads[j]) :
                           j \in 1..n }
                sent == [acc EXCEPT !.batches = b, !.loader = TRUE,
                                    !.nextId = @ + n,
                                    !.embedCalls = Append(@, d.dirpath),
                                    !.upsertCalls = Append(@, d.dirpath)]
            IN  IF here /\ fail.kind = "upsert"
                THEN [sent EXCEPT !.outcome = SISException, !.failDir = d.dirpath,
                                  !.points = RejectedUpsert(@, pts)]
                ELSE FolderLoop(root_folder, walk, i + 1,
                                [sent EXCEPT !.points = StoreUpsert(@, pts),
                                             !.accepted = @ + 1],
                                fail)

NumBatches(root_folder, tree) ==
    LET w == Walk(root_folder, tree)
    IN  Cardinality({ i \in 1..Len(w) : Len(ImagePaths(w[i])) > 0 })

NumImages(root_folder, tree) ==
    Cardinality({ df \in RelDirs \X FilePool : df[2] \in tree[df[1]] /\ IsImageFile(df[2]) })

\* IndexService.index_folder
IndexFolder(root_folder, tree) ==
    /\ Idle
    /\ phase = "serving"
    /\ QDRANT_COLLECTION \in collections
    /\ nextId + NumImages(root_folder, tree) <= MaxIds + 1
    /\ \E at \in 0..NumBatches(root_folder, tree), kind \in IndexFails \ {"none"} :
         LET fail == [at |-> at, kind |-> kind]
             acc0 == [points |-> points, nextId |-> nextId, loader |-> loader,
                      embedCalls |-> <<>>, upsertCalls |-> <<>>, batches |-> 0,
                      accepted |-> 0, outcome |-> Ok, failDir |-> <<>>]
             r == FolderLoop(root_folder, Walk(root_folder, tree), 1, acc0, fail)
         IN  /\ at = 0 => kind = "embed"
             /\ kind = "loader" => (~loader /\ at = 1)
             /\ points' = r.points
             /\ nextId' = r.nextId
             /\ loader' = r.loader
             /\ clearedSince' = (clearedSince /\ r.accepted = 0)
             /\ clearedNoIndex' = (clearedNoIndex /\ r.outcome # Ok)
             /\ lastOp' = [op |-> "index_folder", root |-> root_folder, tree |-> tree,
                           outcome |-> r.outcome,
                           embedCalls |-> r.embedCalls, upsertCalls |-> r.upsertCalls,
                           failDir |-> r.failDir]
    /\ UNCHANGED <<modelDim, collections, client, phase, retrieved, nextDir>>
    /\ UNCHANGED <<lazyVars, ensVars, reqVars>>

\* IndexService.clear_collection: delete(filter=Filter(must=[])); the mutant
\* deletes only the points without a category
ClearMustUncategorised == {<<"category", NoneVal>>}
ClearMust == {}

ClearCollection ==
    /\ Idle
    /\ phase = "serving"
    /\ \E ok \in BOOLEAN :
         LET done == ok /\ QDRANT_COLLECTION \in collections
         IN  /\ points' = IF done THEN StoreDelete(points, ClearMust) ELSE points
             /\ clearedSince' = (clearedSince \/ done)
             /\ clearedNoIndex' = (clearedNoIndex \/ done)
             /\ lastOp' = [op |-> "clear_collection",
                           outcome |-> IF done THEN Ok ELSE SISException]
    /\ UNCHANGED <<modelDim, collections, nextId, client, loader, phase, retrieved,
                   nextDir>>
    /\ UNCHANGED <<lazyVars, ensVars, reqVars>>

\* ----------------------------------------------------- ImageSearchService
\* metadata_filter: None, or a dict given as its set of (key, value) items
NoFilter == [isNone |-> TRUE, items |-> {}]
MetadataFilters ==
    { NoFilter, [isNone |-> FALSE, items |-> {}] }
      \cup { [isNone |-> FALSE, items |-> {<<"category", c>>}] :
               c \in {"cats", "dogs", "birds"} }

\* `if metadata_filter:` then q_filter = Filter(must=[one condition per item])
BuildFilter(metadata_filter) ==
    IF ~metadata_filter.isNone /\ metadata_filter.items # {}
    THEN [none |-> FALSE, must |-> metadata_filter.items]
    ELSE [none |-> TRUE, must |-> {}]

\* the query_filter argument of the query_points call: the call names
\* collection_name, query, limit, with_payload and with_vectors, and no filter
QueryFilterArg(q_filter) == [none |-> TRUE, must |-> {}]

SearchFails == {"none", "loader", "embed", "query"}
Ks == 1..MaxK

\* `return results`: what query_points returned, as it is; the mutant hands
\* the points back in reverse
ReturnedResultsReversed(results) ==
    [i \in 1..Len(results) |-> results[Len(results) + 1 - i]]
ReturnedResults(results) == results

\* ImageSearchService.search_by_text
SearchByText(query_text, k, metadata_filter) ==
    /\ Idle
    /\ phase = "serving"
    /\ \E fail \in SearchFails :
         LET e == EmbedText(query_text, fail = "embed")
             q_filter == BuildFilter(metadata_filter)
             ok == fail = "none" /\ e.outcome = Ok /\ QDRANT_COLLECTION \in collections
         IN  /\ fail = "loader" => ~loader
             /\ loader' = (loader \/ fail # "loader")
             /\ \E res \in (IF ok THEN StoreQuery(points, e.vec, k, QueryFilterArg(q_filter))
                            ELSE {<<>>}) :
                  lastOp' = [op |-> "search_by_text", query |-> <<query_text>>, k |-> k,
                             filter |-> metadata_filter,
                             outcome |-> IF ok THEN Ok ELSE SISException,
                             result |-> ReturnedResults(res)]
    /\ UNCHANGED <<modelDim, collections, points, nextId, client, phase, retrieved,
                   nextDir, clearedSince, clearedNoIndex>>
    /\ UNCHANGED <<lazyVars, ensVars, reqVars>>

\* pictures a caller searches by
QueryPaths == SinglePaths \cup { <<"images", "dogs", "b.PNG">> }

\* ImageSearchService.search_by_image
SearchByImage(image_path, k, metadata_filter) ==
    /\ Idle
    /\ phase = "serving"
    /\ \E fail \in SearchFails :
         LET vector == EmbedImages(<<image_path>>)[1]
             q_filter == BuildFilter(metadata_filter)
             ok == fail = "none" /\ QDRANT_COLLECTION \in collections
         IN  /\ fail = "loader" => ~loader
             /\ loader' = (loader \/ fail # "loader")
             /\ \E res \in (IF ok THEN StoreQuery(points, vector, k, QueryFilterArg(q_filter))
                            ELSE {<<>>}) :
                  lastOp' = [op |-> "search_by_image", query |-> image_path, k |-> k,
                             filter |-> metadata_filter,
                             outcome |-> IF ok THEN Ok ELSE SISException,
                             result |-> ReturnedResults(res)]
    /\ UNCHANGED <<modelDim, collections, points, nextId, client, phase, retrieved,
                   nextDir, clearedSince, clearedNoIndex>>
    /\ UNCHANGED <<lazyVars, ensVars, reqVars>>

\* f"result_{idx}.png" for idx of enumerate(results.points); the mutant counts
\* from one
ResultNameOneBased(idx) == <<"result", idx + 1, "png">>
ResultName(idx) == <<"result", idx, "png">>

\* output_dir = RETRIEVED_ROOT / uuid4().hex
OutputDir(n) == n

\* the loop of save_results over n points when the source of the point at index
\* bad cannot be opened or re-encoded (bad = n: every source can): the indices
\* written before the exception leaves the loop.  The mutant skips the bad
\* source and goes on.
WrittenIndicesSkipping(n, bad) == { i \in 0..(n - 1) : i # bad }
WrittenIndices(n, bad) == { i \in 0..(n - 1) : i < bad }

\* ImageSearchService.save_results on the result of the search that just
\* returned: mkdir(exist_ok=True), then one file per point, in order.  bad is
\* the index of the first point whose source cannot be opened or re-encoded
\* (the number of points: none); mk is mkdir succeeding.
SaveResults ==
    /\ lastOp.op \in {"search_by_text", "search_by_image"}
    /\ lastOp.outcome = Ok
    /\ nextDir <= MaxSaves
    /\ LET pts == lastOp.result
           n == Len(pts)
           dir == OutputDir(nextDir)
       IN  \E bad \in 0..n, mk \in BOOLEAN :
             LET written == IF mk THEN WrittenIndices(n, bad) ELSE {}
                 ok == mk /\ bad = n
             IN  /\ retrieved' = IF mk THEN retrieved \cup {dir} ELSE retrieved
                 /\ nextDir' = nextDir + 1
                 /\ lastOp' = [op |-> "save_results", results |-> pts,
                               outcome |-> IF ok THEN Ok ELSE SISException,
                               dir |-> dir, made |-> mk, firstBad |-> bad,
                               files |-> { [name |-> ResultName(i),
                                            src |-> pts[i + 1].payload.path] :
                                             i \in written }]
    /\ UNCHANGED <<modelDim, collections, points, nextId, client, loader, phase,
                   clearedSince, clearedNoIndex>>
    /\ UNCHANGED <<lazyVars, ensVars, reqVars>>

\* the call returns to its caller
Return ==
    /\ ~Idle
    /\ lastOp' = NoOp
    /\ UNCHANGED <<modelDim, collections, points, nextId, client, loader, phase,
                   retrieved, nextDir, clearedSince, clearedNoIndex>>
    /\ UNCHANGED <<lazyVars, ensVars, reqVars>>

Next ==
    \/ InitServices
    \/ EnsureCollection
    \/ \E p \in SinglePaths, c \in Categories : IndexImage(p, c)
    \/ \E r \in Roots, t \in Trees : IndexFolder(r, t)
    \/ ClearCollection
    \/ \E q \in Texts, k \in Ks, mf \in MetadataFilters : SearchByText(q, k, mf)
    \/ \E p \in QueryPaths, k \in Ks, mf \in MetadataFilters : SearchByImage(p, k, mf)
    \/ SaveResults
    \/ Return

Spec == Init /\ [][Next]_vars

\* ------------------------------------------- the embedding provider alone
\* The module-level wrappers of embeddings.py, called on a process whose
\* CLIP_MODEL_NAME is any of the models.
BatchPaths == { <<x>> : x \in QueryPaths }
                 \cup { s \in [1..MaxBatch -> QueryPaths] : TRUE }

\* get_loader().embed_text(text)
EmbedTextCall(text) ==
    /\ Idle
    /\ \E fail \in {"none", "loader", "embed"} :
         LET e == EmbedText(text, fail = "embed")
         IN  /\ fail = "loader" => ~loader
             /\ loader' = (loader \/ fail # "loader")
             /\ lastOp' = IF fail = "loader"
                          THEN [op |-> "embed_text", text |-> <<text>>,
                                outcome |-> SISException, vec |-> NoVec,
                                encoderCalls |-> 0, loaderFailed |-> TRUE]
                          ELSE [op |-> "embed_text", text |-> <<text>>,
                                outcome |-> e.outcome, vec |-> e.vec,
                                encoderCalls |-> e.encoderCalls, loaderFailed |-> FALSE]
    /\ UNCHANGED <<modelDim, collections, points, nextId, client, phase, retrieved,
                   nextDir, clearedSince, clearedNoIndex>>
    /\ UNCHANGED <<lazyVars, ensVars, reqVars>>

\* get_loader().embed_images(image_paths), and embed_image for one path
EmbedImagePathsCall(image_paths) ==
    /\ Idle
    /\ \E fail \in {"none", "loader", "embed"} :
         /\ fail = "loader" => ~loader
         /\ loader' = (loader \/ fail # "loader")
         /\ lastOp' = [op |-> "embed_image_paths", paths |-> image_paths,
                       outcome |-> IF fail = "none" THEN Ok ELSE SISException,
                       vectors |-> IF fail = "none" THEN EmbedImages(image_paths)
                                   ELSE <<>>,
                       encoderCalls |-> IF fail = "loader" THEN 0 ELSE 1]
    /\ UNCHANGED <<modelDim, collections, points, nextId, client, phase, retrieved,
                   nextDir, clearedSince, clearedNoIndex>>
    /\ UNCHANGED <<lazyVars, ensVars, reqVars>>

InitEmbed ==
    /\ modelDim \in ModelDims
    /\ collections = {"other"}
    /\ points = {}
    /\ nextId = 1
    /\ client = FALSE
    /\ loader = FALSE
    /\ phase = "boot"
    /\ retrieved = {}
    /\ nextDir = 1
    /\ clearedSince = FALSE
    /\ clearedNoIndex = FALSE
    /\ lastOp = NoOp
    /\ LazyInit
    /\ EnsInit
    /\ ReqInit

NextEmbed ==
    \/ \E t \in Texts : EmbedTextCall(t)
    \/ \E ps \in BatchPaths : EmbedImagePathsCall(ps)
    \/ Return

SpecEmbed == InitEmbed /\ [][NextEmbed]_vars

\* -------------------------------- first use of the lazy singletons, threaded
\* get_loader, QdrantClientManager.get_client and translate_query have one
\* shape: test the global for None, construct and assign, read the global
\* back.  Request handlers run on a thread pool, so the steps of two calls
\* interleave.

\* `if _embedding_loader is None:`
LazyCall(t, s) ==
    /\ tpc[t] = "idle"
    /\ tcall' = [tcall EXCEPT ![t] = s]
    /\ tpc' = [tpc EXCEPT ![t] = IF instance[s] = 0 THEN "constructing" ELSE "returning"]
    /\ UNCHANGED <<instance, constructed, tgot>>
    /\ UNCHANGED <<svcVars, ensVars, reqVars>>

\* `_embedding_loader = EmbeddingLoader()`: the constructor runs, then the
\* global is assigned; the constructor may raise
LazyConstruct(t) ==
    /\ tpc[t] = "constructing"
    /\ \E ok \in BOOLEAN :
         LET s == tcall[t]
             n == constructed[s] + 1
         IN  IF ok
             THEN /\ constructed' = [constructed EXCEPT ![s] = n]
                  /\ instance' = [instance EXCEPT ![s] = n]
                  /\ tpc' = [tpc EXCEPT ![t] = "returning"]
             ELSE /\ tpc' = [tpc EXCEPT ![t] = "raised"]
                  /\ UNCHANGED <<instance, constructed>>
    /\ UNCHANGED <<tcall, tgot>>
    /\ UNCHANGED <<svcVars, ensVars, reqVars>>

\* `return _embedding_loader`
LazyReturn(t) ==
    /\ tpc[t] = "returning"
    /\ tgot' = [tgot EXCEPT ![t] = instance[tcall[t]]]
    /\ tpc' = [tpc EXCEPT ![t] = "done"]
    /\ UNCHANGED <<instance, constructed, tcall>>
    /\ UNCHANGED <<svcVars, ensVars, reqVars>>

\* the thread's request ends; the thread serves another
LazyReset(t) ==
    /\ tpc[t] \in {"done", "raised"}
    /\ tpc' = [tpc EXCEPT ![t] = "idle"]
    /\ tcall' = [tcall EXCEPT ![t] = NoneVal]
    /\ tgot' = [tgot EXCEPT ![t] = 0]
    /\ UNCHANGED <<instance, constructed>>
    /\ UNCHANGED <<svcVars, ensVars, reqVars>>

NextLazy ==
    \/ \E t \in Threads, s \in Singletons : LazyCall(t, s)
    \/ \E t \in Threads : LazyConstruct(t)
    \/ \E t \in Threads : LazyReturn(t)
    \/ \E t \in Threads : LazyReset(t)

SpecLazy == Init /\ [][NextLazy]_vars

\* ------------------------------------------ ensure_collection, concurrently
\* Two callers of ensure_collection against one store: the listing and the
\* creation are separate requests, and the store answers each at once.  The
\* store may be unreachable for a request.

\* client.get_collections()
EnsureList(c) ==
    /\ epc[c] = "idle"
    /\ \E ok \in BOOLEAN :
         IF ok
         THEN /\ eseen' = [eseen EXCEPT ![c] = collections]
              /\ epc' = [epc EXCEPT ![c] = "listed"]
              /\ UNCHANGED eresult
         ELSE /\ epc' = [epc EXCEPT ![c] = "done"]
              /\ eresult' = [eresult EXCEPT ![c] = "unavailable"]
              /\ UNCHANGED eseen
    /\ UNCHANGED <<svcVars, lazyVars, reqVars>>

\* client.create_collection(...), when the name was not listed: the store
\* rejects the creation of a name it holds, and the exception is re-raised
EnsureCreate(c) ==
    /\ epc[c] = "listed"
    /\ NeedsCreate(eseen[c])
    /\ \E ok \in BOOLEAN :
         /\ epc' = [epc EXCEPT ![c] = "done"]
         /\ IF ~ok
            THEN /\ eresult' = [eresult EXCEPT ![c] = "unavailable"]
                 /\ UNCHANGED collections
            ELSE IF QDRANT_COLLECTION \in collections
            THEN /\ eresult' = [eresult EXCEPT ![c] = "already exists"]
                 /\ UNCHANGED collections
            ELSE /\ eresult' = [eresult EXCEPT ![c] = Ok]
                 /\ collections' = collections \cup {QDRANT_COLLECTION}
    /\ UNCHANGED <<modelDim, points, nextId, client, loader, phase, retrieved,
                   nextDir, clearedSince, clearedNoIndex, lastOp, eseen>>
    /\ UNCHANGED <<lazyVars, reqVars>>

\* the else branch: "Using existing Qdrant collection"
EnsureExisting(c) ==
    /\ epc[c] = "listed"
    /\ ~NeedsCreate(eseen[c])
    /\ epc' = [epc EXCEPT ![c] = "done"]
    /\ eresult' = [eresult EXCEPT ![c] = Ok]
    /\ UNCHANGED eseen
    /\ UNCHANGED <<svcVars, lazyVars, reqVars>>

\* the caller calls ensure_collection again
EnsureAgain(c) ==
    /\ epc[c] = "done"
    /\ epc' = [epc EXCEPT ![c] = "idle"]
    /\ eseen' = [eseen EXCEPT ![c] = {}]
    /\ UNCHANGED eresult
    /\ UNCHANGED <<svcVars, lazyVars, reqVars>>

InitEnsure ==
    /\ modelDim = VECTOR_SIZE
    /\ collections \in { {}, {"other"} }
    /\ points = {}
    /\ nextId = 1
    /\ client = TRUE
    /\ loader = FALSE
    /\ phase = "boot"
    /\ retrieved = {}
    /\ nextDir = 1
    /\ clearedSince = FALSE
    /\ clearedNoIndex = FALSE
    /\ lastOp = NoOp
    /\ LazyInit
    /\ EnsInit
    /\ ReqInit

NextEnsure ==
    \/ \E c \in Callers : EnsureList(c)
    \/ \E c \in Callers : EnsureCreate(c)
    \/ \E c \in Callers : EnsureExisting(c)
    \/ \E c \in Callers : EnsureAgain(c)

SpecEnsure == InitEnsure /\ [][NextEnsure]_vars

\* ------------------------------ the query translator and the text request
\* The texts that occur as queries, as replies of the language model and as
\* captions; TextChars gives the characters of each, on which strip() works.
AllTexts == Texts \cup {"  ", " cat ", "show me cats"}

TextChars(s) ==
    CASE s = "" -> <<>>
      [] s = "  " -> <<" ", " ">>
      [] s = " cat " -> <<" ", "c", "a", "t", " ">>
      [] s = "cat" -> <<"c", "a", "t">>
      [] s = "red car" -> <<"r", "e", "d", " ", "c", "a", "r">>
      [] s = "show me cats" -> <<"s", "h", "o", "w", " ", "m", "e", " ",
                                 "c", "a", "t", "s">>

RECURSIVE LStrip(_)
LStrip(cs) == IF cs # <<>> /\ cs[1] = " " THEN LStrip(Tail(cs)) ELSE cs

RECURSIVE RStrip(_)
RStrip(cs) == IF cs # <<>> /\ Last(cs) = " " THEN RStrip(Front(cs)) ELSE cs

\* the text of the given characters
StrOf(cs) == CHOOSE s \in AllTexts : TextChars(s) = cs

\* str.strip()
Strip(s) == StrOf(RStrip(LStrip(TextChars(s))))

\* the argument of translate: a str, or an object that is none (None)
NotAString == [isStr |-> FALSE, s |-> NoneVal]
Str(s) == [isStr |-> TRUE, s |-> s]
UserQueries == {NotAString} \cup { Str(s) : s \in {"", "  ", "show me cats", "cat"} }

\* self.llm.invoke(prompt): raises, or answers with a message of this content
LlmReplies == {"", " cat ", "red car"}
LlmOutcomes == {"raise"} \cup LlmReplies

\* `not isinstance(user_query, str) or not user_query.strip()` is false; the
\* mutant lets every argument pass
IsValidQueryAny(user_query) == TRUE
IsValidQuery(user_query) == user_query.isStr /\ Strip(user_query.s) # ""

\* QueryTranslator.translate
Translate(user_query, llm) ==
    IF ~IsValidQuery(user_query)
    THEN [outcome |-> ValueError, caption |-> "", llmCalls |-> 0]
    ELSE IF llm = "raise"
    THEN [outcome |-> SISException, caption |-> "", llmCalls |-> 1]
    ELSE [outcome |-> Ok, caption |-> Strip(llm), llmCalls |-> 1]

\* translate_query: QueryTranslator() on first use, which may raise, then
\* translate; inst is _translator_instance (0: None)
TranslateQuery(inst, user_query, ctorFails, llm) ==
    IF inst = 0 /\ ctorFails
    THEN [instance |-> 0, ctorFailed |-> TRUE, outcome |-> SISException,
          caption |-> "", llmCalls |-> 0]
    ELSE LET t == Translate(user_query, llm)
         IN  [instance |-> 1, ctorFailed |-> FALSE, outcome |-> t.outcome,
              caption |-> t.caption, llmCalls |-> t.llmCalls]

\* translate_query(user_query), called on its own
TranslateQueryCall(user_query) ==
    /\ Idle
    /\ \E ctorFails \in BOOLEAN, llm \in LlmOutcomes :
         LET r == TranslateQuery(instance["translator"], user_query, ctorFails, llm)
         IN  /\ ctorFails => instance["translator"] = 0
             /\ instance' = [instance EXCEPT !["translator"] = r.instance]
             /\ constructed' = [constructed EXCEPT !["translator"] = r.instance]
             /\ lastOp' = [op |-> "translate_query", query |-> user_query,
                           llm |-> llm, ctorFailed |-> r.ctorFailed,
                           outcome |-> r.outcome, caption |-> r.caption,
                           llmCalls |-> r.llmCalls]
    /\ UNCHANGED <<modelDim, collections, points, nextId, client, loader, phase,
                   retrieved, nextDir, clearedSince, clearedNoIndex>>
    /\ UNCHANGED <<tpc, tcall, tgot, ensVars, reqVars>>

\* search_text_endpoint(q, k, category, save_results), one call at a time: the
\* request record holds its arguments, where the handler is, and in log the
\* calls it has made, in order.

\* `search_service.search_by_text(translated, ...)`; the mutant searches by q
SearchedTextRaw(q, translated) == q
SearchedText(q, translated) == translated

\* metadata_filter = {"category": category} if category else None
EndpointFilter(category) ==
    IF category # NoneVal /\ category # ""
    THEN [isNone |-> FALSE, items |-> {<<"category", category>>}]
    ELSE NoFilter

InText(pc) == lastOp.op = "search_text_endpoint" /\ lastOp.pc = pc

LogEntry(call, arg, outcome) == [call |-> call, arg |-> arg, outcome |-> outcome]

SearchTextRequest(q, k, category, save_results) ==
    /\ Idle
    /\ phase = "serving"
    /\ save_results => nextDir <= MaxSaves
    /\ lastOp' = [op |-> "search_text_endpoint", pc |-> "translate", q |-> q,
                  k |-> k, category |-> category, save |-> save_results,
                  translated |-> "", vec |-> NoVec, log |-> <<>>, status |-> 0,
                  results |-> <<>>, saved |-> FALSE]
    /\ UNCHANGED <<modelDim, collections, points, nextId, client, loader, phase,
                   retrieved, nextDir, clearedSince, clearedNoIndex>>
    /\ UNCHANGED <<lazyVars, ensVars, reqVars>>

\* translated = translate_query(q); an exception ends the request with 500
TextTranslate ==
    /\ InText("translate")
    /\ \E ctorFails \in BOOLEAN, llm \in LlmOutcomes :
         LET r == TranslateQuery(instance["translator"], Str(lastOp.q), ctorFails, llm)
             ok == r.outcome = Ok
         IN  /\ ctorFails => instance["translator"] = 0
             /\ instance' = [instance EXCEPT !["translator"] = r.instance]
             /\ constructed' = [constructed EXCEPT !["translator"] = r.instance]
             /\ lastOp' = [lastOp EXCEPT
                             !.log = Append(@, LogEntry("translate_query", lastOp.q,
                                                        r.outcome)),
                             !.translated = r.caption,
                             !.pc = IF ok THEN "embed" ELSE "done",
                             !.status = IF ok THEN 0 ELSE 500]
    /\ UNCHANGED <<modelDim, collections, points, nextId, client, loader, phase,
                   retrieved, nextDir, clearedSince, clearedNoIndex>>
    /\ UNCHANGED <<tpc, tcall, tgot, ensVars, reqVars>>

\* search_by_text: vector = embed_text(query_text)
TextEmbed ==
    /\ InText("embed")
    /\ \E fail \in {"none", "loader", "embed"} :
         LET text == SearchedText(lastOp.q, lastOp.translated)
             e == EmbedText(text, fail = "embed")
             ok == fail # "loader" /\ e.outcome = Ok
         IN  /\ fail = "loader" => ~loader
             /\ loader' = (loader \/ fail # "loader")
             /\ lastOp' = [lastOp EXCEPT
                             !.log = Append(@, LogEntry("embed_text", text,
                                                        IF ok THEN Ok ELSE SISException)),
                             !.vec = IF ok THEN e.vec ELSE NoVec,
                             !.pc = IF ok THEN "query" ELSE "done",
                             !.status = IF ok THEN 0 ELSE 500]
    /\ UNCHANGED <<modelDim, collections, points, nextId, client, phase, retrieved,
                   nextDir, clearedSince, clearedNoIndex>>
    /\ UNCHANGED <<lazyVars, ensVars, reqVars>>

\* search_by_text: results = self.client.query_points(...); then the response,
\* or save_results first when asked for and there are points
TextQuery ==
    /\ InText("query")
    /\ \E accepted \in BOOLEAN :
         LET ok == accepted /\ QDRANT_COLLECTION \in collections
             q_filter == BuildFilter(EndpointFilter(lastOp.category))
         IN  \E res \in (IF ok THEN StoreQuery(points, lastOp.vec, lastOp.k,
                                               QueryFilterArg(q_filter))
                         ELSE {<<>>}) :
               lastOp' = [lastOp EXCEPT
                            !.log = Append(@, LogEntry("query_points", "vector",
                                                       IF ok THEN Ok ELSE SISException)),
                            !.results = ReturnedResults(res),
                            !.pc = IF ok /\ lastOp.save /\ Len(res) > 0
                                   THEN "save" ELSE "done",
                            !.status = IF ok THEN 200 ELSE 500]
    /\ UNCHANGED <<modelDim, collections, points, nextId, client, loader, phase,
                   retrieved, nextDir, clearedSince, clearedNoIndex>>
    /\ UNCHANGED <<lazyVars, ensVars, reqVars>>

\* folder = search_service.save_results(results)
TextSave ==
    /\ InText("save")
    /\ LET n == Len(lastOp.results)
       IN  \E bad \in 0..n, mk \in BOOLEAN :
             LET ok == mk /\ bad = n
             IN  /\ retrieved' = IF mk THEN retrieved \cup {OutputDir(nextDir)}
                                 ELSE retrieved
                 /\ nextDir' = nextDir + 1
                 /\ lastOp' = [lastOp EXCEPT
                                 !.log = Append(@, LogEntry("save_results", "results",
                                                    IF ok THEN Ok ELSE SISException)),
                                 !.saved = ok,
                                 !.pc = "done",
                                 !.status = IF ok THEN 200 ELSE 500]
    /\ UNCHANGED <<modelDim, collections, points, nextId, client, loader, phase,
                   clearedSince, clearedNoIndex>>
    /\ UNCHANGED <<lazyVars, ensVars, reqVars>>

\* the response is sent; translate_query has returned
TextRespond ==
    /\ lastOp.op = "translate_query" \/ InText("done")
    /\ lastOp' = NoOp
    /\ UNCHANGED <<modelDim, collections, points, nextId, client, loader, phase,
                   retrieved, nextDir, clearedSince, clearedNoIndex>>
    /\ UNCHANGED <<lazyVars, ensVars, reqVars>>

\* collections the requests run against: empty, one picture, two pictures
IndexedA == PointStruct(Uuid4(1), [dim |-> VECTOR_SIZE, dir |-> ContentOf("a.jpg")],
                        Payload(<<"uploads", "a.jpg">>, NoneVal))
IndexedB == PointStruct(Uuid4(2), [dim |-> VECTOR_SIZE, dir |-> ContentOf("b.PNG")],
                        Payload(<<"images", "dogs", "b.PNG">>, "dogs"))

InitText ==
    /\ modelDim = VECTOR_SIZE
    /\ collections = {"other", QDRANT_COLLECTION}
    /\ points \in { {}, {IndexedA}, {IndexedA, IndexedB} }
    /\ nextId = Cardinality(points) + 1
    /\ client = TRUE
    /\ loader = FALSE
    /\ phase = "serving"
    /\ retrieved = {}
    /\ nextDir = 1
    /\ clearedSince = FALSE
    /\ clearedNoIndex = FALSE
    /\ lastOp = NoOp
    /\ LazyInit
    /\ EnsInit
    /\ ReqInit

NextText ==
    \/ \E uq \in UserQueries : TranslateQueryCall(uq)
    \/ \E q \in {"", "  ", "show me cats", "cat"}, k \in Ks,
          category \in {NoneVal, "", "dogs"}, sv \in BOOLEAN :
            SearchTextRequest(q, k, category, sv)
    \/ TextTranslate
    \/ TextEmbed
    \/ TextQuery
    \/ TextSave
    \/ TextRespond

SpecText == InitText /\ [][NextText]_vars

\* ------------------------------------- search_image_endpoint, concurrently
\* Requests of the UI (k only: no category, nothing saved) on the threads of
\* the pool.  All write their upload to QUERY_IMAGE_ROOT / file.filename, and
\* search_by_image reads the file of that name back when it embeds.

\* pictures uploaded: the bytes of a.jpg, the bytes of b.PNG
UploadBytes == {"a.jpg", "b.PNG"}

\* the request arrives; `if not file.content_type.startswith("image/")` ends
\* it with 400
UploadReceive(t, filename, bytes, isImage, k) ==
    /\ req[t].pc = "idle"
    /\ phase = "serving"
    /\ req' = [req EXCEPT ![t] =
                 [NoRequest EXCEPT !.pc = IF isImage THEN "open" ELSE "done",
                                   !.filename = filename, !.bytes = bytes, !.k = k,
                                   !.status = IF isImage THEN 0 ELSE 400]]
    /\ UNCHANGED queryFiles
    /\ UNCHANGED <<svcVars, lazyVars, ensVars>>

\* query_path.open("wb"): creates the file, or truncates the one there is
UploadOpen(t) ==
    /\ req[t].pc = "open"
    /\ \E ok \in BOOLEAN :
         IF ok
         THEN /\ queryFiles' = [queryFiles EXCEPT ![req[t].filename] = "empty"]
              /\ req' = [req EXCEPT ![t].pc = "write"]
         ELSE /\ UNCHANGED queryFiles
              /\ req' = [req EXCEPT ![t].pc = "done", ![t].status = 500]
    /\ UNCHANGED <<svcVars, lazyVars, ensVars>>

\* shutil.copyfileobj(file.file, f), from the start of the file, and close
UploadWrite(t) ==
    /\ req[t].pc = "write"
    /\ queryFiles' = [queryFiles EXCEPT ![req[t].filename] = req[t].bytes]
    /\ req' = [req EXCEPT ![t].pc = "search"]
    /\ UNCHANGED <<svcVars, lazyVars, ensVars>>

\* search_service.search_by_image(str(query_path), k): the embedder opens the
\* file of that name and embeds what it holds now; an empty file is no image
UploadSearch(t) ==
    /\ req[t].pc = "search"
    /\ \E fail \in SearchFails :
         LET held == queryFiles[req[t].filename]
             readable == held \in UploadBytes
             vector == [dim |-> modelDim, dir |-> ContentOf(held)]
             ok == fail = "none" /\ readable /\ QDRANT_COLLECTION \in collections
         IN  /\ fail = "loader" => ~loader
             /\ loader' = (loader \/ fail # "loader")
             /\ \E res \in (IF ok THEN StoreQuery(points, vector, req[t].k,
                                                  QueryFilterArg(BuildFilter(NoFilter)))
                            ELSE {<<>>}) :
                  req' = [req EXCEPT
                            ![t].pc = "done",
                            ![t].embedded = IF fail \in {"none", "query"} /\ readable
                                            THEN held ELSE NoneVal,
                            ![t].status = IF ok THEN 200 ELSE 500,
                            ![t].results = ReturnedResults(res)]
    /\ UNCHANGED <<modelDim, collections, points, nextId, client, phase, retrieved,
                   nextDir, clearedSince, clearedNoIndex, lastOp, queryFiles>>
    /\ UNCHANGED <<lazyVars, ensVars>>

\* the response is sent; the thread takes another request
UploadRespond(t) ==
    /\ req[t].pc = "done"
    /\ req' = [req EXCEPT ![t] = NoRequest]
    /\ UNCHANGED queryFiles
    /\ UNCHANGED <<svcVars, lazyVars, ensVars>>

InitUpload ==
    /\ modelDim = VECTOR_SIZE
    /\ collections = {"other", QDRANT_COLLECTION}
    /\ points \in { {}, {IndexedA, IndexedB} }
    /\ nextId = Cardinality(points) + 1
    /\ client = TRUE
    /\ loader = FALSE
    /\ phase = "serving"
    /\ retrieved = {}
    /\ nextDir = 1
    /\ clearedSince = FALSE
    /\ clearedNoIndex = FALSE
    /\ lastOp = NoOp
    /\ LazyInit
    /\ EnsInit
    /\ ReqInit

NextUpload ==
    \/ \E t \in Threads, f \in UploadNames, b \in UploadBytes, im \in BOOLEAN,
          k \in Ks : UploadReceive(t, f, b, im, k)
    \/ \E t \in Threads : UploadOpen(t)
    \/ \E t \in Threads : UploadWrite(t)
    \/ \E t \in Threads : UploadSearch(t)
    \/ \E t \in Threads : UploadRespond(t)

SpecUpload == InitUpload /\ [][NextUpload]_vars

\* ================================================================ claims
IsSearch(o) == o.op \in {"search_by_text", "search_by_image"}
Paths(res) == { res[i].payload.path : i \in 1..Len(res) }

\* C1: every item a search with a non-empty metadata filter returns has a
\* payload equal to the filter on every filtered key.
C1_FilterRestrictsResult ==
    (IsSearch(lastOp) /\ lastOp.outcome = Ok /\ lastOp.filter.items # {})
      => \A i \in 1..Len(lastOp.result) : \A c \in lastOp.filter.items :
           lastOp.result[i].payload[c[1]] = c[2]

\* C2: while the item index_image(I, C) stored is in the collection, a search
\* by the image I with filter {category: C} and k >= 1 returns a result that
\* holds an item whose path is I.
C2_RoundTrip ==
    (/\ lastOp.op = "search_by_image"
     /\ lastOp.outcome = Ok
     /\ lastOp.k >= 1
     /\ lastOp.query \in SinglePaths
     /\ \E p \in points : /\ p.payload.path = lastOp.query
                          /\ lastOp.filter.items = {<<"category", p.payload.category>>})
      => lastOp.query \in Paths(lastOp.result)

\* The claims' own reading of a tree: the files with an image extension, the
\* path of a file and the directory that holds it.
HasImageExtension(f) == f \in {"a.jpg", "b.PNG"}
\* the name of a directory: of the root itself, or of the last part of rel
DirName(root, rel) ==
    IF rel # <<>> THEN Last(rel)
    ELSE IF Last(root) = "" THEN Last(Front(root)) ELSE Last(root)
Norm(dirpath) == IF Last(dirpath) = "" THEN Front(dirpath) ELSE dirpath
FilePath(root, rel, f) == Norm(root) \o rel \o <<f>>
TreeImages(tree) ==
    { df \in RelDirs \X FilePool : df[2] \in tree[df[1]] /\ HasImageExtension(df[2]) }

AddedFor(added, root, df) ==
    { a \in added : a.payload.path = FilePath(root, df[1], df[2]) }

\* C3: a successful index_folder adds exactly one item per file with an image
\* extension and none for another file; an item's category is the name of the
\* directory that directly holds the file; a directory without such a file is
\* neither embedded nor upserted.
C3_TreeIndexed ==
    [][ (lastOp'.op = "index_folder" /\ lastOp'.outcome = Ok) =>
          LET added == points' \ points
              root == lastOp'.root
              imgs == TreeImages(lastOp'.tree)
          IN  /\ points \subseteq points'
              /\ Cardinality(added) = Cardinality(imgs)
              /\ \A df \in imgs :
                   /\ Cardinality(AddedFor(added, root, df)) = 1
                   /\ \A a \in AddedFor(added, root, df) :
                        a.payload.category = DirName(root, df[1])
              /\ \A d \in Range(lastOp'.embedCalls) \cup Range(lastOp'.upsertCalls) :
                   \E df \in imgs : Norm(d) = Norm(root) \o df[1]
      ]_vars

\* position of a directory in the walk order
WalkIndex(root, tree, dirpath) ==
    LET w == Walk(root, tree)
    IN  CHOOSE i \in 1..Len(w) : Norm(w[i].dirpath) = Norm(dirpath)

\* C4: when the embedding or the upsert of a directory fails, index_folder
\* raises, no directory later in the walk order is embedded or upserted, the
\* failing directory adds no item, and every earlier directory's items are in
\* the collection.
C4_FailFastNoRollback ==
    [][ (lastOp'.op = "index_folder" /\ lastOp'.failDir # <<>>) =>
          LET added == points' \ points
              root == lastOp'.root
              tree == lastOp'.tree
              at == WalkIndex(root, tree, lastOp'.failDir)
              imgs == TreeImages(tree)
              Idx(rel) == WalkIndex(root, tree, Norm(root) \o rel)
          IN  /\ lastOp'.outcome = SISException
              /\ points \subseteq points'
              /\ \A d \in Range(lastOp'.embedCalls) \cup Range(lastOp'.upsertCalls) :
                   WalkIndex(root, tree, d) <= at
              /\ \A a \in added :
                   WalkIndex(root, tree, Front(a.payload.path)) < at
              /\ \A df \in imgs : Idx(df[1]) < at =>
                   Cardinality(AddedFor(added, root, df)) = 1
      ]_vars

C4_Witness ==
    /\ lastOp.op = "index_folder"
    /\ lastOp.failDir # <<>>
    /\ Len(lastOp.upsertCalls) = 2
    /\ lastOp.upsertCalls[2] = lastOp.failDir
    /\ \E p \in points : Front(p.payload.path) = Norm(lastOp.upsertCalls[1])

\* C5: called one after another, ensure_collection issues create_collection only
\* when the name is absent, leaves a present collection and its items as they
\* are, and when it succeeds the collection exists.
C5_EnsureIdempotent ==
    [][ lastOp'.op = "ensure_collection" =>
          /\ lastOp'.createIssued => QDRANT_COLLECTION \notin collections
          /\ QDRANT_COLLECTION \in collections =>
               /\ ~lastOp'.createIssued
               /\ collections' = collections
               /\ points' = points
          /\ lastOp'.outcome = Ok => QDRANT_COLLECTION \in collections'
      ]_vars

C5_Witness ==
    /\ lastOp.op = "ensure_collection"
    /\ lastOp.outcome = Ok
    /\ ~lastOp.createIssued
    /\ points # {}

\* C8: save_results on n readable items creates a directory that did not exist
\* and writes exactly the files result_0 .. result_{n-1}, result_i from the
\* source path of the i-th item.
C8_SaveWritesAllInOrder ==
    [][ (lastOp'.op = "save_results" /\ lastOp'.outcome = Ok) =>
          LET res == lastOp'.results
              n == Len(res)
          IN  /\ lastOp'.dir \notin retrieved
              /\ retrieved' = retrieved \cup {lastOp'.dir}
              /\ lastOp'.files =
                   { [name |-> <<"result", i, "png">>, src |-> res[i + 1].payload.path] :
                       i \in 0..(n - 1) }
              /\ Cardinality(lastOp'.files) = n
      ]_vars

C8_Witness ==
    /\ lastOp.op = "save_results"
    /\ lastOp.outcome = Ok
    /\ Len(lastOp.results) = 2
    /\ Cardinality(retrieved) = 2

\* C9, as stated: after a successful clear and until an index call succeeds,
\* every search returns no item, the collection still exists and
\* ensure_collection does not create it again.
C9_ClearedUntilIndexSucceeds ==
    clearedNoIndex =>
      /\ QDRANT_COLLECTION \in collections
      /\ (IsSearch(lastOp) /\ lastOp.outcome = Ok) => Len(lastOp.result) = 0
      /\ lastOp.op = "ensure_collection" => ~lastOp.createIssued

\* C9, amended: after a successful clear and until the store accepts an upsert
\* (of a successful index call, or of an index_folder that fails at a later
\* directory), the collection is empty, every search returns no item, the
\* collection still exists and ensure_collection does not create it again.
C9_ClearedSearchEmpty ==
    clearedSince =>
      /\ points = {}
      /\ QDRANT_COLLECTION \in collections
      /\ (IsSearch(lastOp) /\ lastOp.outcome = Ok) => Len(lastOp.result) = 0
      /\ lastOp.op = "ensure_collection" => ~lastOp.createIssued

C9_Witness ==
    /\ clearedSince
    /\ nextId > 1
    /\ lastOp.op = "search_by_image"
    /\ lastOp.outcome = Ok
    /\ lastOp.k = MaxK

\* C6: when two callers run ensure_collection concurrently, no call ends in an
\* error because the other created the collection first, and once both have
\* ended without the store being unreachable the collection exists.
C6_ConcurrentEnsure ==
    /\ \A c \in Callers : eresult[c] # "already exists"
    /\ (\A c \in Callers : epc[c] = "done" /\ eresult[c] = Ok)
         => QDRANT_COLLECTION \in collections

\* C7: each lazy singleton is constructed at most once, and the threads that
\* asked for one singleton were returned the same instance.
C7_ConstructedOnce ==
    /\ \A s \in Singletons : constructed[s] <= 1
    /\ \A t, u \in Threads :
         (tpc[t] = "done" /\ tpc[u] = "done" /\ tcall[t] = tcall[u]) => tgot[t] = tgot[u]

\* C10: embed_text of a non-empty text returns a vector of VECTOR_SIZE
\* numbers; embed_text("") raises ValueError and does not call the encoder.
C10_EmbedTextContract ==
    (lastOp.op = "embed_text" /\ ~lastOp.loaderFailed) =>
      /\ (lastOp.text # <<"">> /\ lastOp.outcome = Ok) => lastOp.vec.dim = VECTOR_SIZE
      /\ lastOp.text = <<"">> => (lastOp.outcome = ValueError /\ lastOp.encoderCalls = 0)

\* C12: a search_by_text that succeeds with limit k returns at most k points,
\* their scores never increase from first to last, and the sequence is one the
\* store's query_points returns for that call, unchanged.
C12_TopKOrdered ==
    (lastOp.op = "search_by_text" /\ lastOp.outcome = Ok) =>
      LET res == lastOp.result
          e == EmbedText(lastOp.query[1], FALSE)
      IN  /\ Len(res) <= lastOp.k
          /\ \A i, j \in 1..Len(res) : i < j => res[i].score >= res[j].score
          /\ res \in StoreQuery(points, e.vec, lastOp.k,
                                QueryFilterArg(BuildFilter(lastOp.filter)))

C12_Witness ==
    /\ lastOp.op = "search_by_text"
    /\ lastOp.outcome = Ok
    /\ lastOp.k = 2
    /\ Len(lastOp.result) = 2
    /\ lastOp.result[1].score > lastOp.result[2].score

\* C13: an index call leaves every record the collection holds as it is and
\* stores its own under identifiers no record carries; a successful
\* index_image adds one record; identifiers are pairwise distinct; and the
\* number of records goes down in clear_collection only.
C13_IndexNeverOverwrites ==
    [][ /\ lastOp'.op \in {"index_image", "index_folder"} =>
              /\ points \subseteq points'
              /\ \A a \in points' \ points : \A p \in points : a.id # p.id
        /\ (lastOp'.op = "index_image" /\ lastOp'.outcome = Ok) =>
              Cardinality(points') = Cardinality(points) + 1
        /\ \A p, q \in points' : p.id = q.id => p = q
        /\ Cardinality(points') < Cardinality(points) =>
              lastOp'.op = "clear_collection" ]_vars

C13_Witness ==
    /\ lastOp.op = "index_image"
    /\ lastOp.outcome = Ok
    /\ \E p, q \in points : /\ p.id # q.id
                            /\ p.payload.path = lastOp.path
                            /\ q.payload.path = lastOp.path

\* C15: when save_results has made its directory and the source of the point
\* at index j cannot be opened or re-encoded, the call raises, the directory
\* stays, and the files in it are result_0 .. result_{j-1}, each from the
\* source of its point: none for an index from j on.
C15_SaveAbortsAtFirstBad ==
    (/\ lastOp.op = "save_results"
     /\ lastOp.made
     /\ lastOp.firstBad < Len(lastOp.results))
      => /\ lastOp.outcome = SISException
         /\ lastOp.dir \in retrieved
         /\ lastOp.files =
               { [name |-> ResultName(i), src |-> lastOp.results[i + 1].payload.path] :
                   i \in 0..(lastOp.firstBad - 1) }

C15_Witness ==
    /\ lastOp.op = "save_results"
    /\ lastOp.made
    /\ Len(lastOp.results) = 2
    /\ lastOp.firstBad = 1
    /\ Cardinality(lastOp.files) = 1

\* C16: an operation of IndexService or ImageSearchService is called only while
\* the application serves; it comes to serve only by an init_services in which
\* the ensure_collection of both constructors succeeded, after which the
\* collection exists and the client is set; a failed startup is final.
ServiceOps ==
    {"index_image", "index_folder", "clear_collection",
     "search_by_text", "search_by_image", "save_results"}

C16_OperationsOnlyAfterEnsure ==
    [][ /\ (lastOp'.op \in ServiceOps /\ lastOp' # lastOp) => phase = "serving"
        /\ (phase' = "serving" /\ phase # "serving") =>
              /\ lastOp'.op = "init_services"
              /\ lastOp'.outcome = Ok
              /\ lastOp'.ensured = 2
              /\ client'
              /\ QDRANT_COLLECTION \in collections'
        /\ phase = "failed" => phase' = "failed" ]_vars

C16_Witness ==
    /\ phase = "failed"
    /\ lastOp.op = "init_services"
    /\ lastOp.ensured = 1
    /\ client

\* C11: translate raises ValueError on an empty query and on an argument that
\* is not a str, and never calls the language model then; when the language
\* model fails on a query with text, the error is SemanticImageSearchException,
\* which is not ValueError.
C11_TranslateValidates ==
    (lastOp.op = "translate_query" /\ ~lastOp.ctorFailed) =>
      /\ (~lastOp.query.isStr \/ lastOp.query.s = "") =>
            (lastOp.outcome = ValueError /\ lastOp.llmCalls = 0)
      /\ (lastOp.query.isStr /\ Strip(lastOp.query.s) # "" /\ lastOp.llm = "raise") =>
            (lastOp.outcome = SISException /\ SISException # ValueError)

C11_Witness ==
    /\ lastOp.op = "translate_query"
    /\ ~lastOp.ctorFailed
    /\ ~lastOp.query.isStr
    /\ lastOp.outcome = ValueError

\* C14: the calls of a text-search request are, in this order, translate_query,
\* embed_text, query_points (then save_results) or a beginning of it; the
\* text embedded is what translate_query returned; and when translate_query
\* raises, it is the only call and the response is a failure.
TextCallOrder == <<"translate_query", "embed_text", "query_points", "save_results">>

C14_RewriteThenEmbedThenQuery ==
    lastOp.op = "search_text_endpoint" =>
      LET log == lastOp.log
      IN  /\ Len(log) <= Len(TextCallOrder)
          /\ \A i \in 1..Len(log) : log[i].call = TextCallOrder[i]
          /\ \A i \in 1..Len(log) : i < Len(log) => log[i].outcome = Ok
          /\ Len(log) >= 2 => log[2].arg = lastOp.translated
          /\ (Len(log) >= 1 /\ log[1].outcome # Ok) =>
                /\ Len(log) = 1
                /\ lastOp.pc = "done"
                /\ lastOp.status = 500

C14_Witness ==
    /\ InText("done")
    /\ lastOp.status = 200
    /\ lastOp.q = "show me cats"
    /\ lastOp.translated = "cat"
    /\ Len(lastOp.results) = 2

\* C17: the picture a request of search_image_endpoint embeds is the picture
\* that request uploaded, whatever other requests do meanwhile.
C17_EmbedsOwnUpload ==
    \A t \in Threads :
      (req[t].pc = "done" /\ req[t].embedded # NoneVal) =>
         req[t].embedded = req[t].bytes

====
